---- MODULE Spec2Model ----
(***************************************************************************)
(* The two graph generator scripts of force-directed-layout:               *)
(*   graph2.py            a random cycle over a shuffled index order       *)
(*   graph_generation.py  a two-community random graph                     *)
(* Each script is run twice (Runs) against the same random source: `tape'  *)
(* is the sequence of results the source hands out, and every run reads it *)
(* from the start.  A result that no run has read yet is chosen freely.    *)
(* Probabilities and draws are in thousandths (0.5 is 500, 0.01 is 10).    *)
(***************************************************************************)
EXTENDS Integers, Sequences, FiniteSets

\* ---- bounds of the model ----
MaxCycleN == 4
MaxCommN == 3

\* ---- program constants ----
Unit == 1000
AssignThreshold == 500
IntraThreshold1 == 10
IntraThreshold2 == 10
InterThreshold == 1

Runs == {1, 2}
Programs == {"graph2", "graph_generation"}

\* random.random() returns a float in [0, 1): 0.0 and 0.999 in thousandths
DrawValues == {0, 999}

\* the thresholds of the source, and the all-one, all-zero, intra-only and
\* inter-only settings of the three edge probabilities
Configs ==
  { <<IntraThreshold1, IntraThreshold2, InterThreshold>>,
    <<Unit, Unit, Unit>>, <<0, 0, 0>>, <<Unit, Unit, 0>>, <<0, 0, Unit>> }

VARIABLES prog, N, p1, p2, p3, tape,
          pc, cursor, vertices, indices, community1, community2,
          v, i, iter, edges, trials, file

vars == <<prog, N, p1, p2, p3, tape, pc, cursor, vertices, indices,
          community1, community2, v, i, iter, edges, trials, file>>

\* ---- helpers ----
Range(s) == {s[x] : x \in DOMAIN s}

Digit == <<"0", "1", "2", "3", "4", "5", "6", "7", "8", "9">>

\* str(n) / f"{n}": the decimal text of a non-negative integer
RECURSIVE str(_)
str(n) == IF n < 10 THEN Digit[n + 1] ELSE str(n \div 10) \o Digit[(n % 10) + 1]

\* json.dumps of a Python str (digits only: nothing to escape) and of an int
JsonStr(s) == "\"" \o s \o "\""
JsonInt(n) == str(n)

\* [f"{i+1}" for i in range(n)]
VertexList(n) == [x \in 1..n |-> str((x - 1) + 1)]

\* [i for i in range(n)]
IndexList(n) == [x \in 1..n |-> x - 1]

\* the orders random.shuffle can leave a list in: its permutations
Shuffles(s) ==
  { [x \in DOMAIN s |-> s[f[x]]] :
      f \in { g \in [DOMAIN s -> DOMAIN s] : \A a, b \in DOMAIN s : a # b => g[a] # g[b] } }

\* the results the random source can hand run r next: what the tape holds at
\* the run's position, or anything in `fresh' when the tape ends there
NextResult(r, fresh) ==
  IF cursor[r] < Len(tape) THEN {tape[cursor[r] + 1]} ELSE fresh

Consume(r, d) ==
  /\ tape' = IF cursor[r] < Len(tape) THEN tape ELSE Append(tape, d)
  /\ cursor' = [cursor EXCEPT ![r] = @ + 1]

\* a source that is not read from the shared sequence: every call is fresh
random_unseeded(r) == DrawValues

random_shuffle(r, s) == NextResult(r, Shuffles(s))
random_random(r) == NextResult(r, DrawValues)

\* [indices[0], indices[i+1]]
LinkEdgeFromFirst(ind, at) == <<ind[1], ind[at + 2]>>

\* [indices[i], indices[i+1]] with i = at
LinkEdge(ind, at) == <<ind[at + 1], ind[at + 2]>>

\* [indices[-1], indices[-1]]
ClosingEdgeToLast(ind) == <<ind[Len(ind)], ind[Len(ind)]>>

\* [indices[-1], indices[0]]
ClosingEdge(ind) == <<ind[Len(ind)], ind[1]>>

\* json.dumps({"vertices": vertices, "edges": edges})
JsonDocument(vs, es) ==
  [vertices |-> [x \in DOMAIN vs |-> JsonStr(vs[x])],
   edges |-> [x \in DOMAIN es |-> <<JsonInt(es[x][1]), JsonInt(es[x][2])>>]]

NoFile == [vertices |-> <<>>, edges |-> <<>>, written |-> FALSE]

\* ---- graph_generation.py: helpers ----

RECURSIVE Flatten(_)
Flatten(ss) == IF ss = <<>> THEN <<>> ELSE Head(ss) \o Flatten(Tail(ss))

\* the (i, j) that "for j in range(lo, hi)" visits, in order, with i = outer
InnerRange(outer, lo, hi) == [x \in 1..(hi - lo) |-> <<outer, lo + (x - 1)>>]

\* for i in range(n): for j in range(n)
IntraRangeFull(n) == Flatten([x \in 1..n |-> InnerRange(x - 1, 0, n)])

\* for i in range(n): for j in range(i+1, n)
IntraRange(n) == Flatten([x \in 1..n |-> InnerRange(x - 1, (x - 1) + 1, n)])

\* for i in range(n): for j in range(1, m)
InterRangeFromOne(n, m) == Flatten([x \in 1..n |-> InnerRange(x - 1, 1, m)])

\* for i in range(n): for j in range(m)
InterRange(n, m) == Flatten([x \in 1..n |-> InnerRange(x - 1, 0, m)])

\* the branch without its else: community2 takes every vertex
AssignNoElse(c1, c2, vertex, d) ==
  IF d < AssignThreshold THEN <<Append(c1, vertex), Append(c2, vertex)>>
                         ELSE <<c1, Append(c2, vertex)>>

\* lines 10-13: the branch on the draw
Assign(c1, c2, vertex, d) ==
  IF d < AssignThreshold THEN <<Append(c1, vertex), c2>>
                         ELSE <<c1, Append(c2, vertex)>>

\* if random.random() <= p: edges.append([a, b])
SampleEdgeAtMost(es, a, b, d, p) == IF d <= p THEN Append(es, <<a, b>>) ELSE es

\* if random.random() < p: edges.append([a, b])
SampleEdge(es, a, b, d, p) == IF d < p THEN Append(es, <<a, b>>) ELSE es

\* the thresholds the three edge loops compare their draws with
Threshold1 == p1
Threshold2 == p2
Threshold3AsIntra == p1
Threshold3 == p3

\* a run starts when its predecessor has ended
Active(r) == IF r = 1 THEN TRUE ELSE pc[r - 1] \in {"done", "error"}

Init ==
  /\ prog \in Programs
  /\ N \in 0..(IF prog = "graph2" THEN MaxCycleN ELSE MaxCommN)
  /\ \E c \in (IF prog = "graph2" THEN {<<0, 0, 0>>} ELSE Configs) :
       p1 = c[1] /\ p2 = c[2] /\ p3 = c[3]
  /\ tape = <<>>
  /\ pc = [r \in Runs |-> "vertices"]
  /\ cursor = [r \in Runs |-> 0]
  /\ vertices = [r \in Runs |-> <<>>]
  /\ indices = [r \in Runs |-> <<>>]
  /\ community1 = [r \in Runs |-> <<>>]
  /\ community2 = [r \in Runs |-> <<>>]
  /\ v = [r \in Runs |-> 0]
  /\ i = [r \in Runs |-> 0]
  /\ iter = [r \in Runs |-> 0]
  /\ edges = [r \in Runs |-> <<>>]
  /\ trials = [r \in Runs |-> <<>>]
  /\ file = [r \in Runs |-> NoFile]

\* ---- graph2.py ----

\* line 6
CycleVertices(r) ==
  /\ prog = "graph2" /\ Active(r) /\ pc[r] = "vertices"
  /\ vertices' = [vertices EXCEPT ![r] = VertexList(N)]
  /\ pc' = [pc EXCEPT ![r] = "indices"]
  /\ UNCHANGED <<prog, N, p1, p2, p3, tape, cursor, indices, community1,
                 community2, v, i, iter, edges, trials, file>>

\* line 7
CycleIndices(r) ==
  /\ prog = "graph2" /\ pc[r] = "indices"
  /\ indices' = [indices EXCEPT ![r] = IndexList(N)]
  /\ pc' = [pc EXCEPT ![r] = "shuffle"]
  /\ UNCHANGED <<prog, N, p1, p2, p3, tape, cursor, vertices, community1,
                 community2, v, i, iter, edges, trials, file>>

\* lines 8-9
CycleShuffle(r) ==
  /\ prog = "graph2" /\ pc[r] = "shuffle"
  /\ \E s \in random_shuffle(r, indices[r]) :
       /\ indices' = [indices EXCEPT ![r] = s]
       /\ Consume(r, s)
  /\ edges' = [edges EXCEPT ![r] = <<>>]
  /\ i' = [i EXCEPT ![r] = 0]
  /\ pc' = [pc EXCEPT ![r] = "link"]
  /\ UNCHANGED <<prog, N, p1, p2, p3, vertices, community1, community2,
                 v, iter, trials, file>>

\* lines 10-11: one iteration of the loop over range(N - 1)
CycleLink(r) ==
  /\ prog = "graph2" /\ pc[r] = "link"
  /\ i[r] < N - 1
  /\ edges' = [edges EXCEPT ![r] = Append(@, LinkEdge(indices[r], i[r]))]
  /\ i' = [i EXCEPT ![r] = @ + 1]
  /\ UNCHANGED <<prog, N, p1, p2, p3, tape, pc, cursor, vertices, indices,
                 community1, community2, v, iter, trials, file>>

\* line 12, after the loop: the closing edge
CycleClose(r) ==
  /\ prog = "graph2" /\ pc[r] = "link"
  /\ ~(i[r] < N - 1)
  /\ Len(indices[r]) > 0
  /\ edges' = [edges EXCEPT ![r] = Append(@, ClosingEdge(indices[r]))]
  /\ pc' = [pc EXCEPT ![r] = "write"]
  /\ UNCHANGED <<prog, N, p1, p2, p3, tape, cursor, vertices, indices,
                 community1, community2, v, i, iter, trials, file>>

\* line 12 on an empty list: indices[-1] raises IndexError
CycleIndexError(r) ==
  /\ prog = "graph2" /\ pc[r] = "link"
  /\ ~(i[r] < N - 1)
  /\ Len(indices[r]) = 0
  /\ pc' = [pc EXCEPT ![r] = "error"]
  /\ UNCHANGED <<prog, N, p1, p2, p3, tape, cursor, vertices, indices,
                 community1, community2, v, i, iter, edges, trials, file>>

\* ---- graph_generation.py ----

\* line 6
CommVertices(r) ==
  /\ prog = "graph_generation" /\ Active(r) /\ pc[r] = "vertices"
  /\ vertices' = [vertices EXCEPT ![r] = VertexList(N)]
  /\ pc' = [pc EXCEPT ![r] = "communities"]
  /\ UNCHANGED <<prog, N, p1, p2, p3, tape, cursor, indices, community1,
                 community2, v, i, iter, edges, trials, file>>

\* lines 7-8
CommInit(r) ==
  /\ prog = "graph_generation" /\ pc[r] = "communities"
  /\ community1' = [community1 EXCEPT ![r] = <<>>]
  /\ community2' = [community2 EXCEPT ![r] = <<>>]
  /\ v' = [v EXCEPT ![r] = 0]
  /\ pc' = [pc EXCEPT ![r] = "assign"]
  /\ UNCHANGED <<prog, N, p1, p2, p3, tape, cursor, vertices, indices,
                 i, iter, edges, trials, file>>

\* lines 9-13: one iteration of the loop over range(N)
CommAssign(r) ==
  /\ prog = "graph_generation" /\ pc[r] = "assign"
  /\ v[r] < N
  /\ \E d \in random_random(r) :
       /\ Consume(r, d)
       /\ community1' = [community1 EXCEPT
              ![r] = Assign(community1[r], community2[r], v[r], d)[1]]
       /\ community2' = [community2 EXCEPT
              ![r] = Assign(community1[r], community2[r], v[r], d)[2]]
  /\ v' = [v EXCEPT ![r] = @ + 1]
  /\ UNCHANGED <<prog, N, p1, p2, p3, pc, vertices, indices, i, iter, edges,
                 trials, file>>

\* the assignment loop ends; line 15
CommEdges(r) ==
  /\ prog = "graph_generation" /\ pc[r] = "assign"
  /\ ~(v[r] < N)
  /\ edges' = [edges EXCEPT ![r] = <<>>]
  /\ iter' = [iter EXCEPT ![r] = 0]
  /\ pc' = [pc EXCEPT ![r] = "intra1"]
  /\ UNCHANGED <<prog, N, p1, p2, p3, tape, cursor, vertices, indices,
                 community1, community2, v, i, trials, file>>

\* one draw of an edge loop: the pair (a, b) against threshold p
Trial(r, a, b, p) ==
  /\ \E d \in random_random(r) :
       /\ Consume(r, d)
       /\ edges' = [edges EXCEPT ![r] = SampleEdge(@, a, b, d, p)]
       /\ trials' = [trials EXCEPT ![r] = Append(@, [a |-> a, b |-> b, d |-> d])]
  /\ iter' = [iter EXCEPT ![r] = @ + 1]
  /\ UNCHANGED <<prog, N, p1, p2, p3, pc, vertices, indices, community1,
                 community2, v, i, file>>

\* an edge loop ends
LoopEnd(r, next) ==
  /\ iter' = [iter EXCEPT ![r] = 0]
  /\ pc' = [pc EXCEPT ![r] = next]
  /\ UNCHANGED <<prog, N, p1, p2, p3, tape, cursor, vertices, indices,
                 community1, community2, v, i, edges, trials, file>>

\* lines 16-19: one inner iteration
CommIntra1(r) ==
  /\ prog = "graph_generation" /\ pc[r] = "intra1"
  /\ iter[r] < Len(IntraRange(Len(community1[r])))
  /\ LET ij == IntraRange(Len(community1[r]))[iter[r] + 1]
     IN Trial(r, community1[r][ij[1] + 1], community1[r][ij[2] + 1], Threshold1)

CommIntra1End(r) ==
  /\ prog = "graph_generation" /\ pc[r] = "intra1"
  /\ ~(iter[r] < Len(IntraRange(Len(community1[r]))))
  /\ LoopEnd(r, "intra2")

\* lines 20-23: one inner iteration
CommIntra2(r) ==
  /\ prog = "graph_generation" /\ pc[r] = "intra2"
  /\ iter[r] < Len(IntraRange(Len(community2[r])))
  /\ LET ij == IntraRange(Len(community2[r]))[iter[r] + 1]
     IN Trial(r, community2[r][ij[1] + 1], community2[r][ij[2] + 1], Threshold2)

CommIntra2End(r) ==
  /\ prog = "graph_generation" /\ pc[r] = "intra2"
  /\ ~(iter[r] < Len(IntraRange(Len(community2[r]))))
  /\ LoopEnd(r, "inter")

\* lines 24-27: one inner iteration
CommInter(r) ==
  /\ prog = "graph_generation" /\ pc[r] = "inter"
  /\ iter[r] < Len(InterRange(Len(community1[r]), Len(community2[r])))
  /\ LET ij == InterRange(Len(community1[r]), Len(community2[r]))[iter[r] + 1]
     IN Trial(r, community1[r][ij[1] + 1], community2[r][ij[2] + 1], Threshold3)

CommInterEnd(r) ==
  /\ prog = "graph_generation" /\ pc[r] = "inter"
  /\ ~(iter[r] < Len(InterRange(Len(community1[r]), Len(community2[r]))))
  /\ LoopEnd(r, "write")

\* lines 14-15 of graph2.py, lines 29-30 of graph_generation.py
WriteFile(r) ==
  /\ pc[r] = "write"
  /\ file' = [file EXCEPT ![r] =
       [vertices |-> JsonDocument(vertices[r], edges[r]).vertices,
        edges |-> JsonDocument(vertices[r], edges[r]).edges,
        written |-> TRUE]]
  /\ pc' = [pc EXCEPT ![r] = "done"]
  /\ UNCHANGED <<prog, N, p1, p2, p3, tape, cursor, vertices, indices,
                 community1, community2, v, i, iter, edges, trials>>

Next ==
  \E r \in Runs :
    \/ CycleVertices(r)
    \/ CycleIndices(r)
    \/ CycleShuffle(r)
    \/ CycleLink(r)
    \/ CycleClose(r)
    \/ CycleIndexError(r)
    \/ CommVertices(r)
    \/ CommInit(r)
    \/ CommAssign(r)
    \/ CommEdges(r)
    \/ CommIntra1(r)
    \/ CommIntra1End(r)
    \/ CommIntra2(r)
    \/ CommIntra2End(r)
    \/ CommInter(r)
    \/ CommInterEnd(r)
    \/ WriteFile(r)

Spec == Init /\ [][Next]_vars
\* ---- properties ----

CycleDone(r) == prog = "graph2" /\ N >= 1 /\ pc[r] = "done"
CommDone(r) == prog = "graph_generation" /\ pc[r] = "done"
CommSampling(r) ==
  prog = "graph_generation" /\ pc[r] \in {"intra1", "intra2", "inter", "write", "done"}

Ends(e) == {e[1], e[2]}

\* the entries of an edge list that join the unordered pair {a, b}
Joining(es, a, b) == {x \in DOMAIN es : Ends(es[x]) = {a, b}}

\* the number of endpoint places of an edge list that hold a
Degree(es, a) ==
  Cardinality({x \in DOMAIN es : es[x][1] = a}) + Cardinality({x \in DOMAIN es : es[x][2] = a})

\* what can be reached from the set S along the edges, in either direction
RECURSIVE Reach(_, _)
Reach(es, S) ==
  LET T == S \cup {e[2] : e \in {f \in Range(es) : f[1] \in S}}
             \cup {e[1] : e \in {f \in Range(es) : f[2] \in S}}
  IN IF T = S THEN S ELSE Reach(es, T)

NoDuplicateEdges(es) ==
  \A x, y \in DOMAIN es : x # y => Ends(es[x]) # Ends(es[y])

\* C1: the cycle generator writes N vertices and N edges, and each vertex
\* identifier of the written document is an endpoint of exactly 2 of its edges.
C1_IdentifierInTwoEdges ==
  \A r \in Runs : CycleDone(r) =>
    /\ Len(file[r].vertices) = N
    /\ Len(file[r].edges) = N
    /\ \A x \in DOMAIN file[r].vertices :
         Cardinality({y \in DOMAIN file[r].edges :
                        file[r].vertices[x] \in Ends(file[r].edges[y])}) = 2

\* C2: read with endpoint i as the vertex at place i of the vertex list, the
\* edges of the cycle generator form one connected cycle over all N vertices:
\* N edges, every vertex at exactly two endpoint places, and every vertex
\* reached from every other.
C2_SingleCycle ==
  \A r \in Runs : CycleDone(r) =>
    /\ Len(vertices[r]) = N
    /\ Len(edges[r]) = N
    /\ \A e \in Range(edges[r]) : Ends(e) \subseteq 0..(N - 1)
    /\ \A a \in 0..(N - 1) :
         /\ Degree(edges[r], a) = 2
         /\ Reach(edges[r], {a}) = 0..(N - 1)

C2_Witness ==
  \E r \in Runs : CycleDone(r) /\ N >= 4 /\ indices[r] # IndexList(N)

\* C3: every edge endpoint the cycle generator writes is one of the written
\* vertex identifiers (the strings "1".."N").
\* With the shuffled order [2,0,3,1] the written edges are
\* [["3","1"],["1","4"],["4","2"],["2","3"]].
C3_EndpointsAreIdentifiers ==
  \A r \in Runs : CycleDone(r) =>
    /\ \A e \in Range(file[r].edges) : Ends(e) \subseteq Range(file[r].vertices)
    /\ indices[r] = <<2, 0, 3, 1>> =>
         file[r].edges = << <<"\"3\"", "\"1\"">>, <<"\"1\"", "\"4\"">>,
                            <<"\"4\"", "\"2\"">>, <<"\"2\"", "\"3\"">> >>

\* C4: after the assignment loop every index of 0..N-1 is in exactly one of
\* community1 and community2: they are disjoint, without repeats, and their
\* union is 0..N-1.
C4_Partition ==
  \A r \in Runs : CommSampling(r) =>
    /\ Range(community1[r]) \cap Range(community2[r]) = {}
    /\ Range(community1[r]) \cup Range(community2[r]) = 0..(N - 1)
    /\ Len(community1[r]) + Len(community2[r]) = N

C4_Witness ==
  \E r \in Runs : CommSampling(r) /\ N >= 3
                  /\ community1[r] # <<>> /\ community2[r] # <<>>

AllOne == p1 = Unit /\ p2 = Unit /\ p3 = Unit
AllZero == p1 = 0 /\ p2 = 0 /\ p3 = 0

\* C5: with all three probabilities 1 and N >= 2 the community generator
\* ends with every unordered pair of distinct vertices exactly once in the
\* edge list, N*(N-1)/2 edges in all.
C5_CompleteGraph ==
  \A r \in Runs : (CommDone(r) /\ AllOne /\ N >= 2) =>
    /\ 2 * Len(edges[r]) = N * (N - 1)
    /\ \A a, b \in 0..(N - 1) : a # b => Cardinality(Joining(edges[r], a, b)) = 1

C5_Witness ==
  \E r \in Runs : CommDone(r) /\ AllOne /\ N >= 3
                  /\ community1[r] # <<>> /\ community2[r] # <<>>

\* C6: with all three probabilities 0 the edge list of the community
\* generator is empty, whatever N, the communities and the draws.
C6_NoEdges ==
  \A r \in Runs : (prog = "graph_generation" /\ AllZero) => edges[r] = <<>>

C6_Witness ==
  \E r \in Runs : CommDone(r) /\ AllZero /\ N >= 3
                  /\ \E x \in DOMAIN trials[r] : trials[r][x].d = 0

C8_NoDuplicateEdges ==
  \A r \in Runs : CycleDone(r) => NoDuplicateEdges(edges[r])

\* C8 as amended: the same for every N >= 1 other than 2.
C8_NoDuplicateEdgesUnlessTwo ==
  \A r \in Runs : (CycleDone(r) /\ N # 2) => NoDuplicateEdges(edges[r])

C8_Witness ==
  \E r \in Runs : CycleDone(r) /\ N >= 3 /\ indices[r] # IndexList(N)

\* the block of a pair, from the communities its endpoints are in
BlockThreshold(r, a, b) ==
  IF a \in Range(community1[r]) /\ b \in Range(community1[r]) THEN p1
  ELSE IF a \in Range(community2[r]) /\ b \in Range(community2[r]) THEN p2
  ELSE p3

SameCommunity(r, a, b) ==
  \/ a \in Range(community1[r]) /\ b \in Range(community1[r])
  \/ a \in Range(community2[r]) /\ b \in Range(community2[r])

RECURSIVE IncludedPairs(_, _)
IncludedPairs(r, ts) ==
  IF ts = <<>> THEN <<>>
  ELSE (IF Head(ts).d < BlockThreshold(r, Head(ts).a, Head(ts).b)
          THEN <<<<Head(ts).a, Head(ts).b>>>> ELSE <<>>)
       \o IncludedPairs(r, Tail(ts))

\* C9: the edge list is, in order, the pairs whose draw was below the
\* threshold of their block (p1 inside community A, p2 inside B, p3 across);
\* so with p1 = p2 = 1, p3 = 0 the edges are exactly the same-community pairs
\* and with p1 = p2 = 0, p3 = 1 exactly the cross-community pairs.
C9_BlockThresholds ==
  \A r \in Runs : CommSampling(r) =>
    /\ edges[r] = IncludedPairs(r, trials[r])
    /\ (pc[r] = "done" /\ p1 = Unit /\ p2 = Unit /\ p3 = 0) =>
         \A a, b \in 0..(N - 1) : a # b =>
           (Joining(edges[r], a, b) # {} <=> SameCommunity(r, a, b))
    /\ (pc[r] = "done" /\ p1 = 0 /\ p2 = 0 /\ p3 = Unit) =>
         \A a, b \in 0..(N - 1) : a # b =>
           (Joining(edges[r], a, b) # {} <=> ~SameCommunity(r, a, b))

C9_Witness ==
  \E r \in Runs :
    /\ CommDone(r) /\ N >= 3 /\ p1 = Unit /\ p2 = Unit /\ p3 = 0
    /\ \E a, b \in 0..(N - 1) : a # b /\ SameCommunity(r, a, b)
    /\ \E a, b \in 0..(N - 1) : ~SameCommunity(r, a, b)

\* the draws made for the unordered pair {a, b}
TrialsOf(r, a, b) == {x \in DOMAIN trials[r] : {trials[r][x].a, trials[r][x].b} = {a, b}}

\* C10: every unordered pair of distinct indices gets exactly one draw,
\* N*(N-1)/2 in all; the edge list never holds a self-loop or one pair twice,
\* its endpoints are indices of 0..N-1, and an edge inside a community has
\* its smaller endpoint first.
C10_OneTrialPerPair ==
  \A r \in Runs : CommSampling(r) =>
    /\ \A t \in Range(trials[r]) : t.a # t.b /\ {t.a, t.b} \subseteq 0..(N - 1)
    /\ \A a, b \in 0..(N - 1) : Cardinality(TrialsOf(r, a, b)) <= 1
    /\ pc[r] \in {"write", "done"} =>
         /\ 2 * Len(trials[r]) = N * (N - 1)
         /\ \A a, b \in 0..(N - 1) : a # b => Cardinality(TrialsOf(r, a, b)) = 1
    /\ \A e \in Range(edges[r]) :
         /\ e[1] # e[2]
         /\ Ends(e) \subseteq 0..(N - 1)
         /\ SameCommunity(r, e[1], e[2]) => e[1] < e[2]
    /\ NoDuplicateEdges(edges[r])

C10_Witness ==
  \E r \in Runs :
    /\ CommDone(r) /\ N >= 3
    /\ \E e \in Range(edges[r]) : SameCommunity(r, e[1], e[2])
    /\ \E e \in Range(edges[r]) : ~SameCommunity(r, e[1], e[2])
====
